---------------------------- MODULE Spec2Model ----------------------------
(***************************************************************************)
(* Model of csv_to_goodnote.py: the text normalizer (_clean), the column   *)
(* resolver (normalize_columns), the card formatter (make_front_back), the *)
(* table converter (convert_df) and the top-level Streamlit script run.    *)
(*                                                                         *)
(* Text.  A Python str is a sequence of characters; a character is a       *)
(* token (a short ASCII string naming it).  The same character always has  *)
(* the same token and different characters have different tokens:          *)
(*   問 mon  題 dai  文 bun  選 sen  択 taku  肢 shi  正 sei  解 kai         *)
(*   科 ka  目 moku  分 wake  類 rui  設 setsu  本 hon  答 tou  え hira_e    *)
(*   画 ga  像 zou  リ kata_ri  ン kata_n  ク kata_ku  カ kata_ka            *)
(*   テ kata_te  ゴ kata_go  ー kata_chouon  備 bi  考 kou                   *)
(*   Ａ..Ｅ FW_A..FW_E   ａ..ｅ fw_a..fw_e   ASCII letters and digits         *)
(*   themselves, U+FEFF BOM, U+3000 FWSP, space " ", tab TAB, newline NL.  *)
(***************************************************************************)
EXTENDS Integers, Sequences, FiniteSets, TLC

VARIABLES
    pc,          \* position of the run
    s,           \* _clean: the value passed in
    once,        \* _clean(s)
    twice,       \* _clean(_clean(s))
    df_raw,      \* the table read from the upload (pd.read_csv(...).fillna(""))
    df,          \* normalize_columns(df_raw)
    row,         \* make_front_back: the record
    numbering,   \* option: "ABC" or "123"
    add_labels,  \* option: prefix Back with the answer label
    add_meta,    \* option: append subject / link to Back
    card,        \* make_front_back's result <<front, back>>
    uploaded,    \* what st.file_uploader returned
    fronts,      \* convert_df: fronts list
    backs,       \* convert_df: backs list
    out_df,      \* convert_df's result
    csv_bytes,   \* the serialized download payload
    shown        \* the UI calls made so far, in order

vars == <<pc, s, once, twice, df_raw, df, row, numbering, add_labels, add_meta,
          card, uploaded, fronts, backs, out_df, csv_bytes, shown>>

-----------------------------------------------------------------------------
(* Bounds *)

\* longest string handed to _clean in SpecClean
MaxLen == 4
\* most columns drawn from the header pool in SpecCols
MaxCols == 3
\* most data rows of an input table
MaxRows == 2

-----------------------------------------------------------------------------
(* Characters and Python values *)

BOM  == "BOM"
FWSP == "FWSP"
SP   == " "
TAB  == "TAB"
NL   == "NL"

\* the characters of the model for which str.isspace() is true: U+3000 is
\* whitespace for Python, U+FEFF is not
Whitespace == {SP, TAB, NL, FWSP}

\* whitespace if strip() only knew ASCII
AsciiWhitespace == {SP, TAB, NL}

PyNone == [type |-> "NoneType"]
PyStr(x) == [type |-> "str", v |-> x]

\* a value no step has produced yet
Unset == [type |-> "unset"]

Range(f) == {f[i] : i \in DOMAIN f}

\* str.replace(ch, "")
Remove(x, ch) == SelectSeq(x, LAMBDA c : c # ch)

RECURSIVE LStrip(_, _)
LStrip(x, ws) == IF x # <<>> /\ Head(x) \in ws THEN LStrip(Tail(x), ws) ELSE x

RECURSIVE RStrip(_, _)
RStrip(x, ws) ==
    IF x # <<>> /\ x[Len(x)] \in ws THEN RStrip(SubSeq(x, 1, Len(x) - 1), ws) ELSE x

\* str.strip() with ASCII whitespace only
StripAscii(x) == RStrip(LStrip(x, AsciiWhitespace), AsciiWhitespace)

\* str.strip()
Strip(x) == RStrip(LStrip(x, Whitespace), Whitespace)

\* _clean(s): "" for None, else str(s) without U+FEFF, stripped, without U+3000
_clean(v) ==
    IF v.type = "NoneType" THEN <<>>
    ELSE Remove(Strip(Remove(v.v, BOM)), FWSP)

-----------------------------------------------------------------------------
(* Variables a specification does not use *)

CleanIdle == s = Unset /\ once = Unset /\ twice = Unset
ColsIdle  == df_raw = Unset /\ df = Unset
CardIdle  == row = Unset /\ card = Unset
OptsIdle  == numbering = Unset /\ add_labels = Unset /\ add_meta = Unset
RunIdle   == /\ uploaded = Unset /\ fronts = Unset /\ backs = Unset
             /\ out_df = Unset /\ csv_bytes = Unset /\ shown = <<>>

-----------------------------------------------------------------------------
(* SpecClean: _clean applied to a value, and again to its result *)

CleanAlphabet == {"a", SP, TAB, FWSP, BOM}

RECURSIVE StringsUpTo(_, _)
StringsUpTo(alphabet, n) ==
    IF n = 0 THEN {<<>>}
    ELSE LET shorter == StringsUpTo(alphabet, n - 1)
         IN  shorter \cup {Append(x, c) : x \in {y \in shorter : Len(y) = n - 1},
                                          c \in alphabet}

CleanInputs == {PyNone} \cup {PyStr(x) : x \in StringsUpTo(CleanAlphabet, MaxLen)}

InitClean ==
    /\ pc = "clean"
    /\ s \in CleanInputs
    /\ once = Unset /\ twice = Unset
    /\ ColsIdle /\ CardIdle /\ OptsIdle /\ RunIdle

CleanOnce ==
    /\ pc = "clean"
    /\ once' = _clean(s)
    /\ pc' = "clean_again"
    /\ UNCHANGED <<s, twice, df_raw, df, row, numbering, add_labels, add_meta,
                   card, uploaded, fronts, backs, out_df, csv_bytes, shown>>

CleanTwice ==
    /\ pc = "clean_again"
    /\ twice' = _clean(PyStr(once))
    /\ pc' = "cleaned"
    /\ UNCHANGED <<s, once, df_raw, df, row, numbering, add_labels, add_meta,
                   card, uploaded, fronts, backs, out_df, csv_bytes, shown>>

NextClean == CleanOnce \/ CleanTwice

SpecClean == InitClean /\ [][NextClean]_vars

\* C2: _clean is idempotent, and its result holds no U+FEFF, no U+3000 and no
\* whitespace at either edge.
C2_CleanIdempotent ==
    /\ pc \in {"clean_again", "cleaned"} =>
          /\ BOM \notin Range(once)
          /\ FWSP \notin Range(once)
          /\ once # <<>> => Head(once) \notin Whitespace /\ once[Len(once)] \notin Whitespace
    /\ pc = "cleaned" => twice = once

\* a string with a full-width space inside a run of edge whitespace
\* ("a" U+3000 " ") has been cleaned twice
C2_Witness ==
    /\ pc = "cleaned"
    /\ s = PyStr(<<"a", FWSP, SP>>)
    /\ once = <<"a">>

-----------------------------------------------------------------------------
(* Column names *)

Q_COL    == <<"mon", "dai", "bun">>                            \* 問題文
CHOICE_COL(d) == <<"sen", "taku", "shi", d>>                   \* 選択肢1..5
ANS_COL  == <<"sei", "kai">>                                   \* 正解
SUBJ_COL == <<"ka", "moku", "wake", "rui">>                    \* 科目分類
LINK_COL == <<"kata_ri", "kata_n", "kata_ku", "U", "R", "L">>  \* リンクURL

REQUIRED ==
    << Q_COL, CHOICE_COL("1"), CHOICE_COL("2"), CHOICE_COL("3"), CHOICE_COL("4"),
       CHOICE_COL("5"), ANS_COL, SUBJ_COL, LINK_COL >>

\* ALIAS, a dict: its items in insertion order, each <<canon, cands>>
ALIAS ==
    << << Q_COL,           << <<"setsu", "mon">>, <<"mon", "dai">>, <<"hon", "bun">> >> >>,
       << CHOICE_COL("1"), << CHOICE_COL("FW_A"), CHOICE_COL("a"), <<"A">>, <<"fw_a">> >> >>,
       << CHOICE_COL("2"), << CHOICE_COL("FW_B"), CHOICE_COL("b"), <<"B">>, <<"fw_b">> >> >>,
       << CHOICE_COL("3"), << CHOICE_COL("FW_C"), CHOICE_COL("c"), <<"C">>, <<"fw_c">> >> >>,
       << CHOICE_COL("4"), << CHOICE_COL("FW_D"), CHOICE_COL("d"), <<"D">>, <<"fw_d">> >> >>,
       << CHOICE_COL("5"), << CHOICE_COL("FW_E"), CHOICE_COL("e"), <<"E">>, <<"fw_e">> >> >>,
       << ANS_COL,         << <<"kai", "tou">>, <<"tou", "hira_e">>, <<"a", "n", "s">>,
                              <<"a", "n", "s", "w", "e", "r">> >> >>,
       << SUBJ_COL,        << <<"wake", "rui">>, <<"ka", "moku">>,
                              <<"kata_ka", "kata_te", "kata_go", "kata_ri">>,
                              <<"kata_ka", "kata_te", "kata_go", "kata_ri", "kata_chouon">> >> >>,
       << LINK_COL,        << <<"ga", "zou", "U", "R", "L">>,
                              <<"ga", "zou", "kata_ri", "kata_n", "kata_ku">>,
                              <<"kata_ri", "kata_n", "kata_ku">>,
                              <<"ga", "zou", "L", "i", "n", "k">> >> >> >>

-----------------------------------------------------------------------------
(* Tables.  A DataFrame is [columns: the labels in order, data: the rows in   *)
(* order, each row the cells in column order].  Labels need not be unique.    *)

DataFrame(columns, data) == [columns |-> columns, data |-> data]

\* the positions of the columns labelled c, in column order
Positions(columns, c) ==
    SelectSeq([i \in 1..Len(columns) |-> i], LAMBDA i : columns[i] = c)

\* df.rename(columns={c: canon}) without inplace=True: df keeps its labels
RenameNotInPlace(columns, c, canon) == columns

\* df.rename(columns={c: canon}, inplace=True): every column labelled c is
\* relabelled
Rename(columns, c, canon) ==
    [i \in 1..Len(columns) |-> IF columns[i] = c THEN canon ELSE columns[i]]

\* the inner loop over cands run from the last candidate to the first
RECURSIVE LastCandIn(_, _)
LastCandIn(cands, colset) ==
    IF cands = <<>> THEN <<>>
    ELSE IF cands[Len(cands)] \in colset THEN <<cands[Len(cands)]>>
    ELSE LastCandIn(SubSeq(cands, 1, Len(cands) - 1), colset)

\* the inner loop "for c in cands: if c in colset: ...; break": the candidate
\* it stops at, as a sequence of length at most one
RECURSIVE FirstCandIn(_, _)
FirstCandIn(cands, colset) ==
    IF cands = <<>> THEN <<>>
    ELSE IF Head(cands) \in colset THEN <<Head(cands)>>
    ELSE FirstCandIn(Tail(cands), colset)

\* the loop over ALIAS.items() from item k on; colset grows by the canonical
\* names renamed to, it is never shrunk
RECURSIVE ResolveAliases(_, _, _)
ResolveAliases(columns, colset, k) ==
    IF k > Len(ALIAS) THEN columns
    ELSE LET canon == ALIAS[k][1]
             found == FirstCandIn(ALIAS[k][2], colset)
         IN  IF canon \in colset \/ found = <<>>
             THEN ResolveAliases(columns, colset, k + 1)
             ELSE ResolveAliases(Rename(columns, found[1], canon),
                                 colset \cup {canon}, k + 1)

\* the members of REQUIRED that label no column, in REQUIRED's order
Missing(columns) == SelectSeq(REQUIRED, LAMBDA c : c \notin Range(columns))

\* "for c in REQUIRED: if c not in df.columns: df[c] = ''": each missing
\* column is appended in REQUIRED's order, empty in every row (REQUIRED has no
\* repeated name, so appending one never changes which others are missing)
BackFill(t) ==
    DataFrame(t.columns \o Missing(t.columns),
              [r \in 1..Len(t.data) |->
                   t.data[r] \o [j \in 1..Len(Missing(t.columns)) |-> <<>>]])

\* flattening of a sequence of sequences
RECURSIVE Flatten(_)
Flatten(ss) == IF ss = <<>> THEN <<>> ELSE Head(ss) \o Flatten(Tail(ss))

\* the columns of t at the positions idx, in that order
Take(t, idx) ==
    DataFrame([j \in 1..Len(idx) |-> t.columns[idx[j]]],
              [r \in 1..Len(t.data) |-> [j \in 1..Len(idx) |-> t.data[r][idx[j]]]])

\* df[keys]: for each key in order, every column carrying that label
Select(t, keys) ==
    Take(t, Flatten([k \in 1..Len(keys) |-> Positions(t.columns, keys[k])]))

\* the header after "df.columns = [_clean(c) for c in df.columns]"
CleanColumns(columns) == [i \in 1..Len(columns) |-> _clean(PyStr(columns[i]))]

\* lines 42-50: colset = set(df.columns), then the loop over ALIAS.items()
ResolveAll(columns) == ResolveAliases(columns, Range(columns), 1)

\* the stages are bound one after the other, so that each is computed once
normalize_columns(t) ==
    CHOOSE out \in
        {Select(filled, REQUIRED) :
            filled \in {BackFill(DataFrame(renamed, t.data)) :
                renamed \in {ResolveAll(cleaned) :
                    cleaned \in {CleanColumns(t.columns)}}}} : TRUE

-----------------------------------------------------------------------------
(* SpecCols: normalize_columns on the tables pd.read_csv can hand it *)

\* a header no canonical name or alias matches (備考)
OTHER_COL == <<"bi", "kou">>

\* a header with a byte-order mark in front and a full-width space inside
Decorate(h) == <<BOM, Head(h), FWSP>> \o Tail(h)

\* the raw headers drawn for canonical field k: the canonical name, plain and
\* with a leading space, each of its aliases, its first alias decorated, and
\* an unrelated header
Pool(k) ==
    {ALIAS[k][1], <<SP>> \o ALIAS[k][1], Decorate(ALIAS[k][2][1]), OTHER_COL}
        \cup Range(ALIAS[k][2])

\* the sequences of at most n distinct members of S (pd.read_csv never
\* returns two equal column labels: it renames the later one)
RECURSIVE DistinctSeqs(_, _)
DistinctSeqs(S, n) ==
    IF n = 0 THEN {<<>>}
    ELSE LET shorter == DistinctSeqs(S, n - 1)
             longest == {y \in shorter : Len(y) = n - 1}
         IN  shorter \cup UNION {{Append(x, c) : c \in S \ Range(x)} : x \in longest}

RECURSIVE Digits(_)
Digits(n) ==
    LET d == <<"0", "1", "2", "3", "4", "5", "6", "7", "8", "9">>
    IN  IF n < 10 THEN <<d[n + 1]>> ELSE Append(Digits(n \div 10), d[(n % 10) + 1])

\* the cell of data row r under input column j: no two cells are equal
Cell(r, j) == <<"v">> \o Digits(r) \o <<"_">> \o Digits(j)

\* a table of n rows under the given header
Table(columns, n) ==
    DataFrame(columns, [r \in 1..n |-> [j \in 1..Len(columns) |-> Cell(r, j)]])

InitCols ==
    /\ pc = "normalize"
    /\ \E k \in 1..Len(REQUIRED), full \in BOOLEAN, n \in 0..MaxRows :
         \E hs \in DistinctSeqs(Pool(k), MaxCols) :
            df_raw = Table(IF full
                           THEN SubSeq(REQUIRED, 1, k - 1) \o hs
                                    \o SubSeq(REQUIRED, k + 1, Len(REQUIRED))
                           ELSE hs, n)
    /\ df = Unset
    /\ CleanIdle /\ CardIdle /\ OptsIdle /\ RunIdle

\* line 128: df = normalize_columns(df_raw)
NormalizeColumns ==
    /\ pc = "normalize"
    /\ df' = normalize_columns(df_raw)
    /\ pc' = "normalized"
    /\ UNCHANGED <<s, once, twice, df_raw, row, numbering, add_labels, add_meta,
                   card, uploaded, fronts, backs, out_df, csv_bytes, shown>>

NextCols == NormalizeColumns

SpecCols == InitCols /\ [][NextCols]_vars

\* the input header as normalize_columns sees it after cleaning
CleanedHeader == CleanColumns(df_raw.columns)

\* the aliases declared for canonical field k
Cands(k) == ALIAS[k][2]

\* candidate i of field k is in the header cl and no candidate declared before
\* it is
FirstPresent(k, i, cl) ==
    /\ Cands(k)[i] \in Range(cl)
    /\ \A j \in 1..(i - 1) : Cands(k)[j] \notin Range(cl)

\* the input columns field k is taken from: those named by the canonical name
\* if any, else those named by the first declared alias present, else none
SourceOf(k, cl) ==
    IF REQUIRED[k] \in Range(cl) THEN Positions(cl, REQUIRED[k])
    ELSE IF \E i \in DOMAIN Cands(k) : FirstPresent(k, i, cl)
         THEN Positions(cl, Cands(k)[CHOOSE i \in DOMAIN Cands(k) : FirstPresent(k, i, cl)])
         ELSE <<>>

\* C1: normalize_columns returns the nine canonical columns, each once and in
\* REQUIRED's order, with as many rows as the input; a field with no source
\* column is empty in every row.
C1_ExactlyNineColumns ==
    pc = "normalized" =>
        /\ df.columns = REQUIRED
        /\ Len(df.data) = Len(df_raw.data)
        /\ \A r \in DOMAIN df.data :
              /\ Len(df.data[r]) = Len(REQUIRED)
              /\ \A k \in DOMAIN REQUIRED :
                    SourceOf(k, CleanedHeader) = <<>> => df.data[r][k] = <<>>

\* C10: when two or more input headers clean to the same canonical name, the
\* output has that field once, holding the later column's values, and the
\* earlier column's values are nowhere in the output.
C10_LastWriteWins ==
    pc = "normalized" =>
        \A k \in DOMAIN REQUIRED :
            LET src == Positions(CleanedHeader, REQUIRED[k])
                dst == Positions(df.columns, REQUIRED[k])
            IN  Len(src) >= 2 =>
                    /\ Len(dst) = 1
                    /\ \A r \in DOMAIN df.data :
                          /\ df.data[r][dst[1]] = df_raw.data[r][src[Len(src)]]
                          /\ \A j \in 1..(Len(src) - 1) :
                                df_raw.data[r][src[j]] \notin Range(df.data[r])

\* C3: when the cleaned header holds alias a of field c exactly once, not c
\* itself and no alias declared before a, the output's field c holds column
\* a's value in every row, and no output column is labelled a.
C3_AliasRoundTrip ==
    pc = "normalized" =>
        \A cl \in {CleanedHeader} :
        \A k \in DOMAIN REQUIRED : \A i \in DOMAIN Cands(k) :
            (REQUIRED[k] \notin Range(cl) /\ FirstPresent(k, i, cl)) =>
                \A at \in {Positions(cl, Cands(k)[i])} :
                \A dst \in {Positions(df.columns, REQUIRED[k])} :
                    Len(at) = 1 =>
                        /\ Len(dst) = 1
                        /\ \A r \in DOMAIN df.data :
                              df.data[r][dst[1]] = df_raw.data[r][at[1]]
                        /\ Cands(k)[i] \notin Range(df.columns)

\* the full nine-column header with "answer" in place of 正解, two rows, resolved
C3_Witness ==
    /\ pc = "normalized"
    /\ df_raw.columns = [REQUIRED EXCEPT ![7] = <<"a", "n", "s", "w", "e", "r">>]
    /\ Len(df_raw.data) = 2
    /\ df.columns = REQUIRED
    /\ df.data[2][7] = Cell(2, 7)

\* C9: every output column carries a canonical label; field c is taken from
\* the input columns named c when there are any, and otherwise from those
\* named by the first alias, in ALIAS's declared order, that is in the header,
\* wherever the columns stand in the input; with no such column it is empty.
C9_AliasPrecedence ==
    pc = "normalized" =>
        /\ Range(df.columns) \subseteq Range(REQUIRED)
        /\ \A cl \in {CleanedHeader} : \A k \in DOMAIN REQUIRED :
              \A src \in {SourceOf(k, cl)} :
              \A dst \in {Positions(df.columns, REQUIRED[k])} :
                  IF src = <<>>
                  THEN /\ Len(dst) = 1
                       /\ \A r \in DOMAIN df.data : df.data[r][dst[1]] = <<>>
                  ELSE /\ Len(dst) = Len(src)
                       /\ \A r \in DOMAIN df.data : \A j \in DOMAIN src :
                             df.data[r][dst[j]] = df_raw.data[r][src[j]]

\* "ans" stands before "解答" in the input, 正解 itself is absent: the field is
\* taken from 解答, the alias declared first
C9_Witness ==
    /\ pc = "normalized"
    /\ df_raw.columns = << <<"a", "n", "s">>, <<"kai", "tou">> >>
    /\ Len(df_raw.data) = 1
    /\ df.data[1][7] = Cell(1, 2)

-----------------------------------------------------------------------------
(* make_front_back *)

\* a row handed out by df.iterrows(): the column labels and the row's cells
Series(index, values) == [index |-> index, values |-> values]

\* row.get(label, default) for a label that occurs at most once in the index.
\* (For a repeated label get returns a Series, whose str() is the library's
\* display format; the rows of SpecCard and Spec never repeat a label.)
RowGet(r, label, default) ==
    CHOOSE v \in {CASE at = <<>>    -> default
                    [] Len(at) = 1  -> r.values[at[1]] :
                  at \in {Positions(r.index, label)}} : TRUE

\* sep.join(parts)
RECURSIVE Join(_, _)
Join(parts, sep) ==
    IF parts = <<>> THEN <<>>
    ELSE IF Len(parts) = 1 THEN parts[1]
    ELSE parts[1] \o sep \o Join(Tail(parts), sep)

\* lines 65-71: the five choices, each cleaned
Choices(r) ==
    [i \in 1..5 |-> _clean(PyStr(RowGet(r, CHOICE_COL(Digits(i)[1]), <<>>)))]

\* lines 73-76
Labels(num) ==
    IF num = "ABC" THEN <<"A", "B", "C", "D", "E">> ELSE <<"1", "2", "3", "4", "5">>

\* the choices filtered first and numbered afterwards: labels by rank among
\* the surviving choices
ChoiceLinesRenumbered(choices, labels) ==
    [j \in 1..Len(SelectSeq(choices, LAMBDA x : x # <<>>)) |->
        <<labels[j], ".", SP>> \o SelectSeq(choices, LAMBDA x : x # <<>>)[j]]

\* the comprehension of line 78 from position i on
RECURSIVE ChoiceLinesFrom(_, _, _)
ChoiceLinesFrom(choices, labels, i) ==
    IF i > Len(choices) THEN <<>>
    ELSE (IF choices[i] # <<>> THEN << <<labels[i], ".", SP>> \o choices[i] >> ELSE <<>>)
             \o ChoiceLinesFrom(choices, labels, i + 1)

\* line 78: [f"{labels[i]}. {txt}" for i, txt in enumerate(choices) if txt]
ChoiceLines(choices, labels) == ChoiceLinesFrom(choices, labels, 1)

\* line 80, with a newline left after the last choice line
FrontTrailingNewline(q, lines) ==
    IF lines = <<>> THEN q ELSE q \o <<NL, NL>> \o Join(lines, <<NL>>) \o <<NL>>

\* line 80
Front(q, lines) ==
    IF lines = <<>> THEN q ELSE q \o <<NL, NL>> \o Join(lines, <<NL>>)

\* the answer label 正解 followed by ": "
ANSWER_LABEL == <<"sei", "kai", ":", SP>>

\* lines 85-90 with the emptiness test on extra left out
WithMetaAlways(back, subject, link) ==
    back \o <<NL, NL>> \o Join(SelectSeq(<<subject, link>>, LAMBDA x : x # <<>>), <<NL>>)

\* lines 88-90: extra joins the non-empty ones of subject and link; it is
\* appended after a blank line when it is not empty
WithMeta(back, subject, link) ==
    IF SelectSeq(<<subject, link>>, LAMBDA x : x # <<>>) = <<>> THEN back
    ELSE back \o <<NL, NL>>
              \o Join(SelectSeq(<<subject, link>>, LAMBDA x : x # <<>>), <<NL>>)

\* lines 82-90
Back(r, labelled, meta) ==
    CHOOSE b \in
        {IF meta THEN WithMeta(base, _clean(PyStr(RowGet(r, SUBJ_COL, <<>>))),
                               _clean(PyStr(RowGet(r, LINK_COL, <<>>))))
                 ELSE base :
            base \in {IF labelled
                      THEN ANSWER_LABEL \o _clean(PyStr(RowGet(r, ANS_COL, <<>>)))
                      ELSE _clean(PyStr(RowGet(r, ANS_COL, <<>>)))}} : TRUE

make_front_back(r, num, labelled, meta) ==
    << Front(_clean(PyStr(RowGet(r, Q_COL, <<>>))), ChoiceLines(Choices(r), Labels(num))),
       Back(r, labelled, meta) >>

-----------------------------------------------------------------------------
(* SpecCard: make_front_back on one record of a resolved table *)

QuestionCells == { <<"Q">>, <<SP, "Q", FWSP, "?">> }
ChoiceCells(i) == { <<>>, <<FWSP>>, <<Labels("ABC")[i]>>, <<SP, "x", FWSP, Labels("ABC")[i]>> }
AnswerCells   == { <<"4">>, <<BOM, "4", SP>> }
SubjectCells  == { <<>>, <<FWSP>>, <<"M">> }
LinkCells     == { <<>>, <<SP, "u">> }

InitCard ==
    /\ pc = "format"
    /\ \E q \in QuestionCells, c1 \in ChoiceCells(1), c2 \in ChoiceCells(2),
          c3 \in ChoiceCells(3), c4 \in ChoiceCells(4), c5 \in ChoiceCells(5),
          a \in AnswerCells, sj \in SubjectCells, ln \in LinkCells :
            row = Series(REQUIRED, <<q, c1, c2, c3, c4, c5, a, sj, ln>>)
    /\ numbering \in {"ABC", "123"}
    /\ add_labels \in BOOLEAN
    /\ add_meta \in BOOLEAN
    /\ card = Unset
    /\ CleanIdle /\ ColsIdle /\ RunIdle

MakeFrontBack ==
    /\ pc = "format"
    /\ card' = make_front_back(row, numbering, add_labels, add_meta)
    /\ pc' = "formatted"
    /\ UNCHANGED <<s, once, twice, df_raw, df, row, numbering, add_labels, add_meta,
                   uploaded, fronts, backs, out_df, csv_bytes, shown>>

NextCard == MakeFrontBack

SpecCard == InitCard /\ [][NextCard]_vars

\* the normalized text of the record's k-th canonical field (1 question,
\* 2..6 choices, 7 answer, 8 subject, 9 link)
Norm(k) == _clean(PyStr(row.values[k]))

\* the choice positions whose normalized text is not empty
Surviving == {i \in 1..5 : Norm(i + 1) # <<>>}

\* the label of choice position i under numbering num
LabelOf(num, i) ==
    IF num = "ABC"
    THEN CASE i = 1 -> "A" [] i = 2 -> "B" [] i = 3 -> "C" [] i = 4 -> "D" [] i = 5 -> "E"
    ELSE CASE i = 1 -> "1" [] i = 2 -> "2" [] i = 3 -> "3" [] i = 4 -> "4" [] i = 5 -> "5"

\* the members of a set of numbers in increasing order
RECURSIVE Ascending(_)
Ascending(S) ==
    IF S = {} THEN <<>>
    ELSE LET m == CHOOSE x \in S : \A y \in S : x <= y
         IN  <<m>> \o Ascending(S \ {m})

\* the text cut at every newline
RECURSIVE Lines(_)
Lines(x) ==
    IF NL \notin Range(x) THEN <<x>>
    ELSE LET at == CHOOSE i \in DOMAIN x : x[i] = NL /\ \A j \in 1..(i - 1) : x[j] # NL
         IN  <<SubSeq(x, 1, at - 1)>> \o Lines(SubSeq(x, at + 1, Len(x)))

\* what Front holds after the question and the blank line, cut into lines
\* (no cell of SpecCard holds a newline)
ChoiceLinesOfFront ==
    IF Len(card[1]) <= Len(Norm(1)) + 2 THEN <<>>
    ELSE Lines(SubSeq(card[1], Len(Norm(1)) + 3, Len(card[1])))

\* C4: Front's choice lines are "{label}. {text}" for exactly the positions
\* with non-empty normalized text, in increasing position order, each under
\* the label of its own position; ("", "B", "", "D", "") with letters gives
\* "B. B" and "D. D".
C4_ChoiceLabelsByPosition ==
    pc = "formatted" =>
        \A lines \in {ChoiceLinesOfFront} :
            /\ \A order \in {Ascending(Surviving)} :
                  lines = [j \in 1..Len(order) |->
                              <<LabelOf(numbering, order[j]), ".", SP>> \o Norm(order[j] + 1)]
            /\ (/\ numbering = "ABC"
                /\ SubSeq(row.values, 2, 6) = << <<>>, <<"B">>, <<>>, <<"D">>, <<>> >>)
                  => lines = << <<"B", ".", SP, "B">>, <<"D", ".", SP, "D">> >>

\* the record with choices ("", "B", "", "D", "") formatted with letters
C4_Witness ==
    /\ pc = "formatted"
    /\ numbering = "ABC"
    /\ row.values[1] = <<"Q">>
    /\ SubSeq(row.values, 2, 6) = << <<>>, <<"B">>, <<>>, <<"D">>, <<>> >>
    /\ card[1] = <<"Q", NL, NL, "B", ".", SP, "B", NL, "D", ".", SP, "D">>

\* C5: Front is the normalized question alone when no choice survives;
\* otherwise the question, one blank line, and the surviving choice lines
\* joined by single newlines, with no newline at the end.
C5_FrontLayout ==
    pc = "formatted" =>
        \A front \in {card[1]} : \A q \in {Norm(1)} : \A kept \in {Surviving} :
            IF kept = {} THEN front = q
            ELSE /\ SubSeq(front, 1, Len(q) + 2) = q \o <<NL, NL>>
                 /\ front[Len(front)] # NL
                 /\ \A i \in (Len(q) + 3)..(Len(front) - 1) :
                       front[i] = NL => front[i + 1] # NL /\ front[i - 1] # NL
                 /\ \A lines \in {ChoiceLinesOfFront} :
                       /\ Len(lines) = Cardinality(kept)
                       /\ \A ln \in Range(lines) :
                             \E i \in kept :
                                 ln = <<LabelOf(numbering, i), ".", SP>> \o Norm(i + 1)

\* a record whose choices are all empty or a lone full-width space: Front is
\* the cleaned question and nothing else
C5_Witness ==
    /\ pc = "formatted"
    /\ row.values[1] = <<SP, "Q", FWSP, "?">>
    /\ SubSeq(row.values, 2, 6) = << <<>>, <<>>, <<FWSP>>, <<>>, <<>> >>
    /\ card[1] = <<"Q", "?">>

\* C6: Back is the normalized answer, after "正解: " when add_labels; when
\* add_meta and subject or link is non-empty, a blank line and the non-empty
\* ones of subject, link (in that order, one per line) follow; otherwise
\* nothing follows.
C6_BackLayout ==
    pc = "formatted" =>
        \A base \in {IF add_labels THEN <<"sei", "kai", ":", SP>> \o Norm(7) ELSE Norm(7)} :
        \A sj \in {Norm(8)} : \A ln \in {Norm(9)} :
            card[2] =
                CASE ~add_meta \/ (sj = <<>> /\ ln = <<>>) -> base
                  [] add_meta /\ sj # <<>> /\ ln # <<>>    -> base \o <<NL, NL>> \o sj \o <<NL>> \o ln
                  [] add_meta /\ sj # <<>> /\ ln = <<>>    -> base \o <<NL, NL>> \o sj
                  [] add_meta /\ sj = <<>> /\ ln # <<>>    -> base \o <<NL, NL>> \o ln

\* answer "4", subject "M", empty link, both options on: the label, "4", a
\* blank line, "M"
C6_Witness ==
    /\ pc = "formatted"
    /\ add_labels /\ add_meta
    /\ row.values[7] = <<"4">> /\ row.values[8] = <<"M">> /\ row.values[9] = <<>>
    /\ card[2] = <<"sei", "kai", ":", SP, "4", NL, NL, "M">>

-----------------------------------------------------------------------------
(* Spec: one run of the script, from the upload widget to the download      *)
(* button                                                                   *)

\* a missing value in a parsed cell
PyNaN == [type |-> "float", v |-> "nan"]

\* .fillna(""): every missing cell becomes the empty string; with dtype=str
\* every other cell is a string already
FillNa(cells) ==
    [r \in 1..Len(cells) |->
        [j \in 1..Len(cells[r]) |->
            IF cells[r][j].type = "float" THEN <<>> ELSE cells[r][j].v]]

\* what st.file_uploader returns: None, or a file; the file either makes
\* pd.read_csv raise or parses to a header and rows of parsed cells
UploadedFile(csv) == [type |-> "UploadedFile", csv |-> csv]
Unreadable == [ok |-> FALSE]
Parsed(columns, cells) == [ok |-> TRUE, columns |-> columns, cells |-> cells]

\* the records the uploaded files are made of, as parsed cells in the order
\* question, choice 1..5, answer, subject, link, and a tenth cell for a
\* column that is no field
FileRecords ==
    { << PyStr(<<"Q">>), PyStr(<<"A">>), PyStr(<<"B">>), PyNaN, PyNaN, PyNaN,
         PyStr(<<"A">>), PyStr(<<"M">>), PyNaN, PyStr(<<"m">>) >>,
      << PyStr(<<SP, "Q", FWSP, "?">>), PyNaN, PyStr(<<"B">>), PyNaN, PyStr(<<"D", SP>>),
         PyStr(<<FWSP>>), PyStr(<<"D">>), PyNaN, PyStr(<<"u">>), PyNaN >>,
      << PyStr(<<"Q", "2">>), PyNaN, PyNaN, PyNaN, PyNaN, PyNaN,
         PyNaN, PyNaN, PyNaN, PyNaN >> }

\* the headers of the uploaded files, each column with the cell of a record
\* it carries: the canonical header; aliases and decorated names in another
\* order, with an extra column and without subject and link; question and
\* answer only.  No two columns of a header clean to the same label.
FileHeaders ==
    { [j \in 1..9 |-> <<REQUIRED[j], j>>],
      << << <<"tou", "hira_e">>, 7 >>, << <<BOM, "setsu", "mon">>, 1 >>,
         << OTHER_COL, 10 >>, << <<"fw_b">>, 3 >>, << <<"A">>, 2 >>,
         << <<SP>> \o CHOICE_COL("4"), 5 >>, << CHOICE_COL("3") \o <<FWSP>>, 4 >> >>,
      << << <<"mon", "dai">>, 1 >>, << <<"a", "n", "s">>, 7 >> >> }

\* the sequences over S of length at most n
RECURSIVE SeqsUpTo(_, _)
SeqsUpTo(S, n) ==
    IF n = 0 THEN {<<>>}
    ELSE LET shorter == SeqsUpTo(S, n - 1)
         IN  shorter \cup {Append(x, c) : x \in {y \in shorter : Len(y) = n - 1}, c \in S}

Uploads ==
    {PyNone, UploadedFile(Unreadable)} \cup
    { UploadedFile(Parsed([j \in 1..Len(h) |-> h[j][1]],
                          [r \in 1..Len(recs) |->
                              [j \in 1..Len(h) |-> recs[r][h[j][2]]]])) :
        h \in FileHeaders, recs \in SeqsUpTo(FileRecords, MaxRows) }

\* lines 105-115: the sidebar options and the upload of this run
Init ==
    /\ pc = "upload"
    /\ uploaded \in Uploads
    /\ numbering \in {"ABC", "123"}
    /\ add_labels \in BOOLEAN
    /\ add_meta \in BOOLEAN
    /\ df_raw = Unset /\ df = Unset
    /\ fronts = Unset /\ backs = Unset /\ out_df = Unset /\ csv_bytes = Unset
    /\ shown = <<>>
    /\ CleanIdle /\ CardIdle

\* lines 117-119: nothing uploaded
NoUpload ==
    /\ pc = "upload"
    /\ uploaded.type = "NoneType"
    /\ shown' = Append(shown, "info")
    /\ pc' = "stopped"
    /\ UNCHANGED <<s, once, twice, df_raw, df, row, numbering, add_labels, add_meta,
                   card, uploaded, fronts, backs, out_df, csv_bytes>>

\* lines 122-123: pd.read_csv(uploaded, dtype=str).fillna("")
ReadCsv ==
    /\ pc = "upload"
    /\ uploaded.type = "UploadedFile"
    /\ uploaded.csv.ok
    /\ df_raw' = DataFrame(uploaded.csv.columns, FillNa(uploaded.csv.cells))
    /\ pc' = "normalize"
    /\ UNCHANGED <<s, once, twice, df, row, numbering, add_labels, add_meta,
                   card, uploaded, fronts, backs, out_df, csv_bytes, shown>>

\* the except branch reporting the error and going on with an empty table
ReadCsvFailsNoStop ==
    /\ pc = "upload"
    /\ uploaded.type = "UploadedFile"
    /\ ~uploaded.csv.ok
    /\ shown' = Append(shown, "error")
    /\ df_raw' = DataFrame(<<>>, <<>>)
    /\ pc' = "normalize"
    /\ UNCHANGED <<s, once, twice, df, row, numbering, add_labels, add_meta,
                   card, uploaded, fronts, backs, out_df, csv_bytes>>

\* lines 124-126: pd.read_csv raises; st.error, then st.stop
ReadCsvFails ==
    /\ pc = "upload"
    /\ uploaded.type = "UploadedFile"
    /\ ~uploaded.csv.ok
    /\ shown' = Append(shown, "error")
    /\ pc' = "stopped"
    /\ UNCHANGED <<s, once, twice, df_raw, df, row, numbering, add_labels, add_meta,
                   card, uploaded, fronts, backs, out_df, csv_bytes>>

\* lines 130-137: the check for missing columns, then the success message and
\* the preview of the normalized input
CheckMissing ==
    /\ pc = "normalized"
    /\ IF Missing(df.columns) # <<>>
       THEN shown' = Append(shown, "error") /\ pc' = "stopped"
       ELSE shown' = shown \o <<"success", "dataframe">> /\ pc' = "convert"
    /\ UNCHANGED <<s, once, twice, df_raw, df, row, numbering, add_labels, add_meta,
                   card, uploaded, fronts, backs, out_df, csv_bytes>>

\* line 95: fronts, backs = [], []
ConvertBegin ==
    /\ pc = "convert"
    /\ fronts' = <<>> /\ backs' = <<>>
    /\ pc' = "iterrows"
    /\ UNCHANGED <<s, once, twice, df_raw, df, row, numbering, add_labels, add_meta,
                   card, uploaded, out_df, csv_bytes, shown>>

\* the loop body putting each card in front of the lists
ConvertRowPrepending ==
    /\ pc = "iterrows"
    /\ Len(fronts) < Len(df.data)
    /\ \E fb \in {make_front_back(Series(df.columns, df.data[Len(fronts) + 1]),
                                  numbering, add_labels, add_meta)} :
          /\ fronts' = <<fb[1]>> \o fronts
          /\ backs' = <<fb[2]>> \o backs
    /\ UNCHANGED <<pc, s, once, twice, df_raw, df, row, numbering, add_labels, add_meta,
                   card, uploaded, out_df, csv_bytes, shown>>

\* lines 96-98: one turn of "for _, row in df.iterrows()"; the rows come in
\* table order, the next one is the one after those already converted
ConvertRow ==
    /\ pc = "iterrows"
    /\ Len(fronts) < Len(df.data)
    /\ \E fb \in {make_front_back(Series(df.columns, df.data[Len(fronts) + 1]),
                                  numbering, add_labels, add_meta)} :
          /\ fronts' = Append(fronts, fb[1])
          /\ backs' = Append(backs, fb[2])
    /\ UNCHANGED <<pc, s, once, twice, df_raw, df, row, numbering, add_labels, add_meta,
                   card, uploaded, out_df, csv_bytes, shown>>

\* lines 99-100 and 142-143: the rows are exhausted; out_df is built from the
\* two lists and previewed
ConvertEnd ==
    /\ pc = "iterrows"
    /\ Len(fronts) = Len(df.data)
    /\ out_df' = DataFrame(<<"Front", "Back">>,
                           [r \in 1..Len(fronts) |-> <<fronts[r], backs[r]>>])
    /\ shown' = Append(shown, "dataframe")
    /\ pc' = "serialize"
    /\ UNCHANGED <<s, once, twice, df_raw, df, row, numbering, add_labels, add_meta,
                   card, uploaded, fronts, backs, csv_bytes>>

\* lines 146-148: the CSV document written by to_csv(index=False) and encoded
\* as utf-8-sig: a byte-order mark, the header record, one record per row
\* (the quoting of fields is the csv writer's and is not described)
ToCsvBytes(t) == [bom |-> TRUE, header |-> t.columns, records |-> t.data]

\* lines 146-157: serialization, the download button and the closing caption
OfferDownload ==
    /\ pc = "serialize"
    /\ csv_bytes' = ToCsvBytes(out_df)
    /\ shown' = shown \o <<"download_button", "caption">>
    /\ pc' = "done"
    /\ UNCHANGED <<s, once, twice, df_raw, df, row, numbering, add_labels, add_meta,
                   card, uploaded, fronts, backs, out_df>>

Next ==
    \/ NoUpload
    \/ ReadCsv
    \/ ReadCsvFails
    \/ NormalizeColumns
    \/ CheckMissing
    \/ ConvertBegin
    \/ ConvertRow
    \/ ConvertEnd
    \/ OfferDownload

Spec == Init /\ [][Next]_vars

\* C7: convert_df returns one (Front, Back) row per record of the resolved
\* table, the i-th being make_front_back of the i-th record under the run's
\* options; an empty table gives an empty result.
C7_RowByRow ==
    /\ pc = "iterrows" => Len(fronts) = Len(backs) /\ Len(fronts) <= Len(df.data)
    /\ pc \in {"serialize", "done"} =>
          /\ out_df.columns = <<"Front", "Back">>
          /\ Len(out_df.data) = Len(df.data)
          /\ \A i \in DOMAIN df.data :
                out_df.data[i] = make_front_back(Series(df.columns, df.data[i]),
                                                 numbering, add_labels, add_meta)

\* a two-row table with different records has been converted
C7_Witness ==
    /\ pc = "done"
    /\ Len(df.data) = 2
    /\ df.data[1] # df.data[2]
    /\ Len(out_df.data) = 2
    /\ out_df.data[1] # out_df.data[2]

\* the run could not read a table: nothing uploaded, or pd.read_csv raised
NoTable == uploaded.type = "NoneType" \/ ~uploaded.csv.ok

\* C8: without an upload, or when reading the CSV raises, the run stops (the
\* error shown first in the failure case) and normalize_columns, convert_df,
\* the serialization and the download button are never reached; the download
\* is offered only after a successful parse, with every row converted.
C8_StopBeforeOutput ==
    /\ NoTable =>
          /\ pc \in {"upload", "stopped"}
          /\ df_raw = Unset /\ df = Unset
          /\ fronts = Unset /\ backs = Unset /\ out_df = Unset /\ csv_bytes = Unset
          /\ "download_button" \notin Range(shown)
          /\ pc = "stopped" =>
                shown = IF uploaded.type = "NoneType" THEN <<"info">> ELSE <<"error">>
    /\ (csv_bytes # Unset \/ "download_button" \in Range(shown)) =>
          /\ ~NoTable
          /\ pc = "done"
          /\ df # Unset /\ out_df # Unset
          /\ Len(out_df.data) = Len(uploaded.csv.cells)
          /\ csv_bytes.records = out_df.data

\* pd.read_csv raised: the error is on screen and the run has stopped
C8_Witness ==
    /\ pc = "stopped"
    /\ uploaded.type = "UploadedFile"
    /\ ~uploaded.csv.ok
    /\ shown = <<"error">>
    /\ csv_bytes = Unset

=============================================================================
